---- MODULE Spec2Model ----
(***************************************************************************)
(* Model of the property-rental marketplace backend (backend/server.py).   *)
(* The state is the three MongoDB collections (users, properties,          *)
(* property_interests), the supply of uuid4 values, and the HTTP response  *)
(* of the last request.  Each endpoint is one action.  `scenario` is the    *)
(* position of the client that runs the end-to-end scenario, `inflight`    *)
(* the requests that are served concurrently, each between two of its      *)
(* store operations.                                                       *)
(***************************************************************************)
EXTENDS Integers, Sequences, FiniteSets, TLC

VARIABLES users, properties, property_interests, next_uuid, quota, response, scenario, inflight

vars == <<users, properties, property_interests, next_uuid, quota, response, scenario, inflight>>

(***************************************************************************)
(* Bounds of the exploration.                                              *)
(***************************************************************************)
\* number of requests explored in one behaviour
MaxRequests == 3

\* number of requests served concurrently
MaxInFlight == 2

(***************************************************************************)
(* Strings that the code parses are sequences of characters.               *)
(***************************************************************************)
HexDigits == <<"0", "1", "2", "3", "4", "5", "6", "7", "8", "9", "a", "b", "c", "d", "e", "f">>

\* str(uuid.uuid4()): hexadecimal digits and hyphens, never an underscore;
\* the n-th value drawn is distinct from every earlier one
uuid4(n) == <<HexDigits[((n \div 16) % 16) + 1], "-", HexDigits[(n % 16) + 1]>>

Digits == <<"0", "1", "2", "3", "4", "5", "6", "7", "8", "9">>

RECURSIVE str(_)
\* str(int): the decimal digits of a natural number
str(n) == IF n < 10 THEN <<Digits[n + 1]>> ELSE str(n \div 10) \o <<Digits[(n % 10) + 1]>>

TokenPrefix == <<"t", "o", "k", "e", "n", "_">>

\* generate_token with the time written before the user id
generate_token_time_first(user_id, now) == TokenPrefix \o str(now) \o <<"_">> \o user_id

\* f"token_{user_id}_{int(time.time())}"
generate_token(user_id, now) == TokenPrefix \o user_id \o <<"_">> \o str(now)

\* token.startswith("token_")
startswith(s, prefix) == Len(s) >= Len(prefix) /\ SubSeq(s, 1, Len(prefix)) = prefix

RECURSIVE index(_, _, _)
\* the first position at or after i where s holds sep, 0 when there is none
index(s, sep, i) ==
    IF i > Len(s) THEN 0 ELSE IF s[i] = sep THEN i ELSE index(s, sep, i + 1)

RECURSIVE split(_, _)
\* s.split(sep): the segments between the separators, empty segments kept
split(s, sep) ==
    LET k == index(s, sep, 1) IN
    IF k = 0 THEN <<s>>
    ELSE <<SubSeq(s, 1, k - 1)>> \o split(SubSeq(s, k + 1, Len(s)), sep)

\* hashlib.sha256(password.encode()).hexdigest(): a deterministic digest,
\* distinct passwords give distinct digests
hash_password(password) == <<"sha256", password>>

verify_password(password, hashed) == hash_password(password) = hashed

(***************************************************************************)
(* Responses.                                                              *)
(***************************************************************************)
NoToken == <<>>

Reply(code, detail) == [status_code |-> code, detail |-> detail, token |-> NoToken]

HTTPException(code, detail) == Reply(code, detail)

(***************************************************************************)
(* The store: db.users, db.properties, db.property_interests, and the      *)
(* number of uuid4 values drawn so far.                                    *)
(***************************************************************************)
db == [users |-> users, properties |-> properties,
       property_interests |-> property_interests, next_uuid |-> next_uuid]

NoDoc == [none |-> TRUE]

find(collection, field, value) == {d \in collection : d[field] = value}

find_one(collection, field, value) ==
    LET found == find(collection, field, value) IN
    IF found = {} THEN NoDoc ELSE CHOOSE d \in found : TRUE

\* update_one({field: value}, {"$set": fields})
update_one(collection, field, value, fields) ==
    {IF d[field] = value
     THEN [f \in DOMAIN d |-> IF f \in DOMAIN fields THEN fields[f] ELSE d[f]]
     ELSE d : d \in collection}

\* delete_one / delete_many on a field value
delete_many(collection, field, value) == {d \in collection : d[field] # value}

(***************************************************************************)
(* The outcome of a request: its response and the store it leaves.         *)
(***************************************************************************)
Outcome(resp, store) == [response |-> resp, db |-> store]

\* raise HTTPException: the request ends and the store is as it was
Raise(code, detail) == Outcome(HTTPException(code, detail), db)

\* verify_token without the test of the prefix
verify_token_any_prefix(token) ==
    LET parts == split(token, "_") IN
    IF Len(parts) < 3
    THEN [ok |-> FALSE, error |-> HTTPException(401, "Invalid token format")]
    ELSE LET user == find_one(users, "user_id", parts[2]) IN
         IF user = NoDoc
         THEN [ok |-> FALSE, error |-> HTTPException(401, "User not found")]
         ELSE [ok |-> TRUE, user |-> user]

(***************************************************************************)
(* verify_token: the dependency every authenticated endpoint runs first.   *)
(* The result is either [ok |-> TRUE, user |-> doc] or the 401 it raises.  *)
(***************************************************************************)
verify_token(token) ==
    IF ~startswith(token, TokenPrefix)
    THEN [ok |-> FALSE, error |-> HTTPException(401, "Invalid token")]
    ELSE LET parts == split(token, "_") IN
         IF Len(parts) < 3
         THEN [ok |-> FALSE, error |-> HTTPException(401, "Invalid token format")]
         ELSE LET user_id == parts[2]
                  user == find_one(users, "user_id", user_id) IN
              IF user = NoDoc
              THEN [ok |-> FALSE, error |-> HTTPException(401, "User not found")]
              ELSE [ok |-> TRUE, user |-> user]

(***************************************************************************)
(* Documents.  A key the code leaves out of a document is Absent.          *)
(***************************************************************************)
Absent == [absent |-> TRUE]

UserDoc(user_id, email, phone, password, user_type, profile_completed, kyc_completed, profile, kyc_results) ==
    [user_id |-> user_id, email |-> email, phone |-> phone,
     password |-> hash_password(password), user_type |-> user_type,
     profile_completed |-> profile_completed, kyc_completed |-> kyc_completed,
     profile |-> profile, kyc_results |-> kyc_results]

PropertyDoc(property_id, owner_id, property_type, rent, location) ==
    [property_id |-> property_id, owner_id |-> owner_id,
     property_type |-> property_type, rent |-> rent, location |-> location,
     status |-> "active"]

InterestDoc(interest_id, property_id, tenant_id, owner_id) ==
    [interest_id |-> interest_id, property_id |-> property_id,
     tenant_id |-> tenant_id, owner_id |-> owner_id,
     status |-> "pending", responded_by |-> Absent]

(***************************************************************************)
(* seed_sample_data: five users and five properties, with fresh uuids      *)
(* base+1 .. base+10.                                                      *)
(***************************************************************************)
SeedKycResults ==
    [aadhaar_verification |-> [status |-> "verified"],
     pan_verification |-> [status |-> "verified"],
     face_match |-> [status |-> "match"],
     digilocker_docs |-> Absent,
     employer_verification |-> [company_found |-> TRUE]]

sample_users(base) ==
    { UserDoc(uuid4(base + 1), "admin@realestate.com", "+91-9999999999", "admin123", "admin",
              TRUE, TRUE, [full_name |-> "Platform Administrator", phone |-> "+91-9999999999"], Absent),
      UserDoc(uuid4(base + 2), "john.owner@realestate.com", "+91-9876543201", "password123", "owner",
              TRUE, TRUE, [full_name |-> "John Property Owner", phone |-> "+91-9876543201"], Absent),
      UserDoc(uuid4(base + 3), "sarah.dealer@realestate.com", "+91-9876543202", "password123", "dealer",
              TRUE, TRUE, [full_name |-> "Sarah Real Estate Dealer", phone |-> "+91-9876543202"], Absent),
      UserDoc(uuid4(base + 4), "alex.tenant@realestate.com", "+91-9876543203", "password123", "tenant",
              TRUE, TRUE, [full_name |-> "Alex Tenant User", phone |-> "+91-9876543203"], SeedKycResults),
      UserDoc(uuid4(base + 5), "priya.tenant@realestate.com", "+91-9876543204", "password123", "tenant",
              TRUE, FALSE, [full_name |-> "Priya Tenant", phone |-> "+91-9876543204"], Absent) }

sample_properties(base) ==
    LET owner_user == find_one(sample_users(base), "user_type", "owner")
        dealer_user == find_one(sample_users(base), "user_type", "dealer") IN
    { PropertyDoc(uuid4(base + 6), owner_user.user_id, "apartment", 45000,
                  "Adani Oysters Grande, Sector 102, Gurugram, Haryana"),
      PropertyDoc(uuid4(base + 7), owner_user.user_id, "apartment", 32000,
                  "ATS Triumph, Sector 104, Gurugram, Haryana"),
      PropertyDoc(uuid4(base + 8), dealer_user.user_id, "house", 75000,
                  "Emaar Palm Hills, Sector 77, Gurugram, Haryana"),
      PropertyDoc(uuid4(base + 9), dealer_user.user_id, "apartment", 22000,
                  "Emaar Digi Homes, Sector 62, Gurugram, Haryana"),
      PropertyDoc(uuid4(base + 10), owner_user.user_id, "apartment", 55000,
                  "DLF Park Place, Sector 54, Gurugram, Haryana") }

SeedSize == Cardinality(sample_users(0)) + Cardinality(sample_properties(0))

\* the store seed_sample_data leaves when it draws its uuids after `base`
seed_sample_data(base) ==
    [users |-> sample_users(base), properties |-> sample_properties(base),
     property_interests |-> {}, next_uuid |-> base + SeedSize]

\* startup_event -> initialize_database -> seed_sample_data on an empty store
Startup ==
    /\ users = seed_sample_data(0).users
    /\ properties = seed_sample_data(0).properties
    /\ property_interests = seed_sample_data(0).property_interests
    /\ next_uuid = seed_sample_data(0).next_uuid
    /\ response = Reply(0, "startup")

\* the client of the scenario before its first request
ScenarioStart == [stage |-> "start", token |-> NoToken, property_id |-> uuid4(0)]

\* a worker that serves no request
Idle == [endpoint |-> "idle"]

Workers == 1..MaxInFlight

Init ==
    /\ Startup
    /\ quota = MaxRequests
    /\ scenario = ScenarioStart
    /\ inflight = [w \in Workers |-> Idle]

(***************************************************************************)
(* POST /api/admin/reset-database (declared without authentication)        *)
(***************************************************************************)
reset_database ==
    Outcome(Reply(200, "Database reset and re-seeded successfully"), seed_sample_data(next_uuid))

\* register_user without the lookup of the phone number
register_user_email_only(email, phone, password, user_type, now) ==
    IF find_one(users, "email", email) # NoDoc
    THEN Raise(400, "User with this email already exists")
    ELSE LET user_id == uuid4(next_uuid + 1)
             user_doc == UserDoc(user_id, email, phone, password, user_type,
                                 FALSE, FALSE, Absent, Absent) IN
         Outcome([status_code |-> 200, detail |-> "User registered successfully",
                  token |-> generate_token(user_id, now)],
                 [db EXCEPT !.users = users \cup {user_doc}, !.next_uuid = next_uuid + 1])

(***************************************************************************)
(* POST /api/auth/register                                                 *)
(***************************************************************************)
register_user(email, phone, password, user_type, now) ==
    IF find_one(users, "email", email) # NoDoc
    THEN Raise(400, "User with this email already exists")
    ELSE IF find_one(users, "phone", phone) # NoDoc
    THEN Raise(400, "User with this phone number already exists")
    ELSE LET user_id == uuid4(next_uuid + 1)
             user_doc == UserDoc(user_id, email, phone, password, user_type,
                                 FALSE, FALSE, Absent, Absent) IN
         Outcome([status_code |-> 200, detail |-> "User registered successfully",
                  token |-> generate_token(user_id, now)],
                 [db EXCEPT !.users = users \cup {user_doc}, !.next_uuid = next_uuid + 1])

(***************************************************************************)
(* POST /api/auth/login                                                    *)
(***************************************************************************)
login_user(email, password, now) ==
    LET user == find_one(users, "email", email) IN
    IF user = NoDoc \/ ~verify_password(password, user.password)
    THEN Raise(401, "Invalid credentials")
    ELSE Outcome([status_code |-> 200, detail |-> "Login successful",
                  token |-> generate_token(user.user_id, now)], db)

\* the fields of the UserProfile model
UserProfileFields ==
    {"full_name", "phone", "address", "areas_served", "office_address", "current_address",
     "permanent_address", "employment_type", "monthly_income"}

\* profile_data.dict(exclude_unset=True) of the UserProfile parsed from the
\* request body: the keys the body sets, those that are no field of the
\* model left out
UserProfile(body) == [f \in DOMAIN body \cap UserProfileFields |-> body[f]]

\* update_user_profile that also sets the keys of the request body on the
\* user record itself
update_user_profile_body_on_record(profile_data, current_user) ==
    Outcome(Reply(200, "Profile updated successfully"),
            [db EXCEPT !.users =
                update_one(update_one(users, "user_id", current_user.user_id, profile_data),
                           "user_id", current_user.user_id,
                           [profile |-> UserProfile(profile_data), profile_completed |-> TRUE])])

(***************************************************************************)
(* PUT /api/user/profile; profile_data is the request body                 *)
(***************************************************************************)
update_user_profile(profile_data, current_user) ==
    Outcome(Reply(200, "Profile updated successfully"),
            [db EXCEPT !.users = update_one(users, "user_id", current_user.user_id,
                                            [profile |-> UserProfile(profile_data),
                                             profile_completed |-> TRUE])])

(***************************************************************************)
(* POST /api/properties                                                    *)
(***************************************************************************)
create_property(property_data, current_user) ==
    IF current_user.user_type \notin {"owner", "dealer"}
    THEN Raise(403, "Only owners and dealers can create properties")
    ELSE LET property_id == uuid4(next_uuid + 1)
             property_doc == PropertyDoc(property_id, current_user.user_id,
                                         property_data.property_type, property_data.rent,
                                         property_data.location) IN
         Outcome(Reply(200, "Property created successfully"),
                 [db EXCEPT !.properties = properties \cup {property_doc},
                            !.next_uuid = next_uuid + 1])

(***************************************************************************)
(* GET /api/properties.  An Optional[float] parameter is <<>> when the     *)
(* request leaves it out and <<v>> when it gives v; for the Optional[str]  *)
(* parameters the code takes None and "" through the same branch, so ""    *)
(* stands for both.  The response carries the list as `properties`.        *)
(***************************************************************************)
None == <<>>

\* the characters of the strings the searches and the searched listings use
chars(string) ==
    CASE string = "" -> <<>>
      [] string = "Goa" -> <<"G", "o", "a">>
      [] string = "Agra" -> <<"A", "g", "r", "a">>
      [] string = "goa" -> <<"g", "o", "a">>
      [] string = "G.a" -> <<"G", ".", "a">>
      [] string = "gr" -> <<"g", "r">>

\* case folding of the "i" option, over the characters above
lower(c) == CASE c = "G" -> "g" [] c = "A" -> "a" [] OTHER -> c

\* {"$regex": pattern, "$options": "i"}: the pattern is searched anywhere in
\* the text; "." matches any character, every other character above
\* matches itself, whatever its case
regex_search(pattern, text) ==
    LET pat == chars(pattern)
        txt == chars(text) IN
    \E i \in 0..(Len(txt) - Len(pat)) :
       \A k \in 1..Len(pat) : pat[k] = "." \/ lower(pat[k]) = lower(txt[i + k])

get_properties(user_type, location, min_rent, max_rent, property_type, current_user) ==
    LET matches(p) ==
            /\ p.status = "active"
            /\ (current_user.user_type \in {"owner", "dealer"} /\ user_type = "") =>
                  p.owner_id = current_user.user_id
            /\ location # "" => regex_search(location, p.location)
            /\ min_rent # None => p.rent >= min_rent[1]
            /\ max_rent # None => p.rent <= max_rent[1]
            /\ (property_type # "" /\ property_type # "all") => p.property_type = property_type IN
    Outcome([status_code |-> 200, detail |-> "properties", token |-> NoToken,
             properties |-> {p \in properties : matches(p)}], db)

\* the fields of the PropertyUpdate model
PropertyUpdateFields ==
    {"title", "description", "property_type", "bhk", "area_size", "area_unit", "rent",
     "location", "google_location", "amenities", "images"}

\* PropertyUpdate that keeps every key of the request body
PropertyUpdate_any_key(body) == body

\* update_data.dict(exclude_unset=True) of the PropertyUpdate parsed from
\* the request body: the keys the body sets, those that are no field of the
\* model left out
PropertyUpdate(body) == [f \in DOMAIN body \cap PropertyUpdateFields |-> body[f]]

\* update_property that writes before it compares owner_id with the caller
update_property_write_before_check(property_id, update_dict, current_user) ==
    LET property_doc == find_one(properties, "property_id", property_id)
        written == IF DOMAIN update_dict # {}
                   THEN [db EXCEPT !.properties =
                            update_one(properties, "property_id", property_id, update_dict)]
                   ELSE db IN
    IF property_doc = NoDoc
    THEN Raise(404, "Property not found")
    ELSE IF property_doc.owner_id # current_user.user_id
    THEN Outcome(HTTPException(403, "Not authorized to update this property"), written)
    ELSE Outcome(Reply(200, "Property updated successfully"), written)

\* update_property without the comparison of owner_id with the caller
update_property_any_caller(property_id, update_dict, current_user) ==
    LET property_doc == find_one(properties, "property_id", property_id) IN
    IF property_doc = NoDoc
    THEN Raise(404, "Property not found")
    ELSE Outcome(Reply(200, "Property updated successfully"),
                 IF DOMAIN update_dict # {}
                 THEN [db EXCEPT !.properties =
                           update_one(properties, "property_id", property_id, update_dict)]
                 ELSE db)

(***************************************************************************)
(* PUT /api/properties/{property_id}                                       *)
(* update_dict is update_data.dict(exclude_unset=True): the fields the     *)
(* request sets.                                                           *)
(***************************************************************************)
update_property(property_id, update_dict, current_user) ==
    LET property_doc == find_one(properties, "property_id", property_id) IN
    IF property_doc = NoDoc
    THEN Raise(404, "Property not found")
    ELSE IF property_doc.owner_id # current_user.user_id
    THEN Raise(403, "Not authorized to update this property")
    ELSE Outcome(Reply(200, "Property updated successfully"),
                 IF DOMAIN update_dict # {}
                 THEN [db EXCEPT !.properties =
                           update_one(properties, "property_id", property_id, update_dict)]
                 ELSE db)

(***************************************************************************)
(* The verification collaborators                                          *)
(***************************************************************************)
mock_karza_verify_aadhaar == [status |-> "verified"]

mock_karza_verify_pan == [status |-> "verified"]

\* "match" if random.random() > 0.1 else "no_match"
FaceMatchOutcomes == {[status |-> "match"], [status |-> "no_match"]}

mock_digilocker_fetch_docs == [documents |-> <<"aadhaar", "driving_license", "voter_id">>]

valid_companies == {"Tata Consultancy Services", "Infosys Limited", "Wipro Limited"}

\* the requests name a company in full, so the substring test of the code
\* is membership
mock_mca_employer_verify(employer_name) ==
    LET is_valid == employer_name \in valid_companies IN
    [company_found |-> is_valid, status |-> IF is_valid THEN "active" ELSE "not_found"]

\* kyc_status without the face match
kyc_status_without_face(verification_results) ==
    /\ verification_results.aadhaar_verification.status = "verified"
    /\ verification_results.pan_verification.status = "verified"

\* all([...]) over the three gating checks
kyc_status(verification_results) ==
    /\ verification_results.aadhaar_verification.status = "verified"
    /\ verification_results.pan_verification.status = "verified"
    /\ verification_results.face_match.status = "match"

\* the verification_results dict verify_kyc builds; "" is the request
\* without an employer name
verification_results(employer_name, face_match) ==
    [aadhaar_verification |-> mock_karza_verify_aadhaar,
     pan_verification |-> mock_karza_verify_pan,
     face_match |-> face_match,
     digilocker_docs |-> mock_digilocker_fetch_docs,
     employer_verification |->
         IF employer_name # "" THEN mock_mca_employer_verify(employer_name) ELSE Absent]

\* verify_kyc that keeps a kyc_completed that is already true
verify_kyc_keeps_verified(employer_name, face_match, current_user) ==
    IF current_user.user_type # "tenant"
    THEN Raise(403, "Only tenants can complete KYC")
    ELSE LET results == verification_results(employer_name, face_match) IN
         Outcome(Reply(200, "KYC verification completed"),
                 [db EXCEPT !.users = update_one(users, "user_id", current_user.user_id,
                                                 [kyc_completed |-> current_user.kyc_completed
                                                                       \/ kyc_status(results),
                                                  kyc_results |-> results])])

\* verify_kyc without the test of the caller's role
verify_kyc_any_role(employer_name, face_match, current_user) ==
    LET results == verification_results(employer_name, face_match) IN
    Outcome(Reply(200, "KYC verification completed"),
            [db EXCEPT !.users = update_one(users, "user_id", current_user.user_id,
                                            [kyc_completed |-> kyc_status(results),
                                             kyc_results |-> results])])

(***************************************************************************)
(* POST /api/kyc/verify                                                    *)
(***************************************************************************)
verify_kyc(employer_name, face_match, current_user) ==
    IF current_user.user_type # "tenant"
    THEN Raise(403, "Only tenants can complete KYC")
    ELSE LET results == verification_results(employer_name, face_match) IN
         Outcome(Reply(200, "KYC verification completed"),
                 [db EXCEPT !.users = update_one(users, "user_id", current_user.user_id,
                                                 [kyc_completed |-> kyc_status(results),
                                                  kyc_results |-> results])])

\* express_interest without the test of kyc_completed
express_interest_without_kyc(property_id, current_user) ==
    IF current_user.user_type # "tenant"
    THEN Raise(403, "Only tenants can express interest")
    ELSE LET property_doc == find_one(properties, "property_id", property_id) IN
         IF property_doc = NoDoc
         THEN Raise(404, "Property not found")
         ELSE LET interest_id == uuid4(next_uuid + 1)
                  interest_doc == InterestDoc(interest_id, property_id,
                                              current_user.user_id, property_doc.owner_id) IN
              Outcome(Reply(200, "Interest expressed successfully"),
                      [db EXCEPT !.property_interests = property_interests \cup {interest_doc},
                                 !.next_uuid = next_uuid + 1])

\* express_interest that records the caller as the owner
express_interest_caller_as_owner(property_id, current_user) ==
    IF current_user.user_type # "tenant"
    THEN Raise(403, "Only tenants can express interest")
    ELSE IF ~current_user.kyc_completed
    THEN Raise(400, "Complete KYC verification first")
    ELSE LET property_doc == find_one(properties, "property_id", property_id) IN
         IF property_doc = NoDoc
         THEN Raise(404, "Property not found")
         ELSE LET interest_id == uuid4(next_uuid + 1)
                  interest_doc == InterestDoc(interest_id, property_id,
                                              current_user.user_id, current_user.user_id) IN
              Outcome(Reply(200, "Interest expressed successfully"),
                      [db EXCEPT !.property_interests = property_interests \cup {interest_doc},
                                 !.next_uuid = next_uuid + 1])

(***************************************************************************)
(* POST /api/properties/{property_id}/interest                             *)
(***************************************************************************)
express_interest(property_id, current_user) ==
    IF current_user.user_type # "tenant"
    THEN Raise(403, "Only tenants can express interest")
    ELSE IF ~current_user.kyc_completed
    THEN Raise(400, "Complete KYC verification first")
    ELSE LET property_doc == find_one(properties, "property_id", property_id) IN
         IF property_doc = NoDoc
         THEN Raise(404, "Property not found")
         ELSE LET interest_id == uuid4(next_uuid + 1)
                  interest_doc == InterestDoc(interest_id, property_id,
                                              current_user.user_id, property_doc.owner_id) IN
              Outcome(Reply(200, "Interest expressed successfully"),
                      [db EXCEPT !.property_interests = property_interests \cup {interest_doc},
                                 !.next_uuid = next_uuid + 1])

(***************************************************************************)
(* PUT /api/interests/{interest_id}/respond                                *)
(***************************************************************************)
\* f"Interest {response} successfully"
\* get_interests that returns every stored interest to a tenant
get_interests_unscoped(current_user) ==
    LET interests ==
            IF current_user.user_type = "tenant"
            THEN property_interests
            ELSE IF current_user.user_type \in {"owner", "dealer"}
            THEN find(property_interests, "owner_id", current_user.user_id)
            ELSE {} IN
    Outcome([status_code |-> 200, detail |-> "interests", token |-> NoToken,
             interests |-> interests], db)

(***************************************************************************)
(* GET /api/interests: the response carries the list as `interests`        *)
(***************************************************************************)
get_interests(current_user) ==
    LET interests ==
            IF current_user.user_type = "tenant"
            THEN find(property_interests, "tenant_id", current_user.user_id)
            ELSE IF current_user.user_type \in {"owner", "dealer"}
            THEN find(property_interests, "owner_id", current_user.user_id)
            ELSE {} IN
    Outcome([status_code |-> 200, detail |-> "interests", token |-> NoToken,
             interests |-> interests], db)

RespondMessage(resp) ==
    CASE resp = "approved" -> "Interest approved successfully"
      [] resp = "rejected" -> "Interest rejected successfully"
      [] OTHER -> "Interest maybe successfully"

\* respond_to_interest that answers without writing the status
respond_to_interest_without_write(interest_id, resp, current_user) ==
    IF current_user.user_type \notin {"owner", "dealer"}
    THEN Raise(403, "Only owners and dealers can respond to interests")
    ELSE LET interest_doc == find_one(property_interests, "interest_id", interest_id) IN
         IF interest_doc = NoDoc
         THEN Raise(404, "Interest not found")
         ELSE IF interest_doc.owner_id # current_user.user_id
         THEN Raise(403, "Not authorized to respond to this interest")
         ELSE Outcome(Reply(200, RespondMessage(resp)), db)

\* respond_to_interest without the comparison of owner_id with the caller
respond_to_interest_any_owner(interest_id, resp, current_user) ==
    IF current_user.user_type \notin {"owner", "dealer"}
    THEN Raise(403, "Only owners and dealers can respond to interests")
    ELSE LET interest_doc == find_one(property_interests, "interest_id", interest_id) IN
         IF interest_doc = NoDoc
         THEN Raise(404, "Interest not found")
         ELSE Outcome(Reply(200, RespondMessage(resp)),
                      [db EXCEPT !.property_interests =
                           update_one(property_interests, "interest_id", interest_id,
                                      [status |-> resp, responded_by |-> current_user.user_id])])

respond_to_interest(interest_id, resp, current_user) ==
    IF current_user.user_type \notin {"owner", "dealer"}
    THEN Raise(403, "Only owners and dealers can respond to interests")
    ELSE LET interest_doc == find_one(property_interests, "interest_id", interest_id) IN
         IF interest_doc = NoDoc
         THEN Raise(404, "Interest not found")
         ELSE IF interest_doc.owner_id # current_user.user_id
         THEN Raise(403, "Not authorized to respond to this interest")
         ELSE Outcome(Reply(200, RespondMessage(resp)),
                      [db EXCEPT !.property_interests =
                           update_one(property_interests, "interest_id", interest_id,
                                      [status |-> resp, responded_by |-> current_user.user_id])])

\* delete_user that deletes the user record alone
delete_user_without_cascade(user_id, current_user) ==
    IF current_user.user_type # "admin"
    THEN Raise(403, "Admin access required")
    ELSE IF user_id = current_user.user_id
    THEN Raise(400, "Cannot delete your own admin account")
    ELSE IF find_one(users, "user_id", user_id) = NoDoc
    THEN Raise(404, "User not found")
    ELSE Outcome(Reply(200, "User deleted successfully"),
                 [db EXCEPT !.users = delete_many(users, "user_id", user_id)])

\* delete_user without the test for the caller's own id
delete_user_self_allowed(user_id, current_user) ==
    IF current_user.user_type # "admin"
    THEN Raise(403, "Admin access required")
    ELSE IF find_one(users, "user_id", user_id) = NoDoc
    THEN Raise(404, "User not found")
    ELSE Outcome(Reply(200, "User deleted successfully"),
                 [db EXCEPT !.users = delete_many(users, "user_id", user_id),
                            !.properties = delete_many(properties, "owner_id", user_id),
                            !.property_interests =
                                delete_many(delete_many(property_interests, "tenant_id", user_id),
                                            "owner_id", user_id)])

(***************************************************************************)
(* DELETE /api/admin/users/{user_id}                                       *)
(***************************************************************************)
delete_user(user_id, current_user) ==
    IF current_user.user_type # "admin"
    THEN Raise(403, "Admin access required")
    ELSE IF user_id = current_user.user_id
    THEN Raise(400, "Cannot delete your own admin account")
    ELSE IF find_one(users, "user_id", user_id) = NoDoc
    THEN Raise(404, "User not found")
    ELSE Outcome(Reply(200, "User deleted successfully"),
                 [db EXCEPT !.users = delete_many(users, "user_id", user_id),
                            !.properties = delete_many(properties, "owner_id", user_id),
                            !.property_interests =
                                delete_many(delete_many(property_interests, "tenant_id", user_id),
                                            "owner_id", user_id)])

\* delete_property_admin that deletes the property record alone
delete_property_admin_without_cascade(property_id, current_user) ==
    IF current_user.user_type # "admin"
    THEN Raise(403, "Admin access required")
    ELSE IF find_one(properties, "property_id", property_id) = NoDoc
    THEN Raise(404, "Property not found")
    ELSE Outcome(Reply(200, "Property deleted successfully"),
                 [db EXCEPT !.properties = delete_many(properties, "property_id", property_id)])

(***************************************************************************)
(* DELETE /api/admin/properties/{property_id}                              *)
(***************************************************************************)
delete_property_admin(property_id, current_user) ==
    IF current_user.user_type # "admin"
    THEN Raise(403, "Admin access required")
    ELSE IF find_one(properties, "property_id", property_id) = NoDoc
    THEN Raise(404, "Property not found")
    ELSE Outcome(Reply(200, "Property deleted successfully"),
                 [db EXCEPT !.properties = delete_many(properties, "property_id", property_id),
                            !.property_interests =
                                delete_many(property_interests, "property_id", property_id)])

(***************************************************************************)
(* Inputs of the requests.                                                 *)
(***************************************************************************)
EmailInputs == {"admin@realestate.com", "priya.tenant@realestate.com", "new.user@example.com"}

PhoneInputs == {"+91-9999999999", "9876543210"}

PasswordInputs == {"password123", "TestPass123!"}

RegisterPasswordInputs == {"TestPass123!"}

\* user_type is a free string of the request
UserTypeInputs == {"tenant", "guest"}

\* int(time.time()) at the moment a request is served
TimeInputs == {42}

\* the moments the tokens the requests carry were generated
IssueTimes == {7, 42}

\* an id that no document has: uuid4(0) is never drawn
UnknownId == uuid4(0)

\* ids a request names as a user: the stored users and the unknown id
UserIdInputs == {u.user_id : u \in users} \cup {UnknownId}

\* tokens no generate_token call returns: another prefix before an admin's
\* id, an admin's id without the third segment, an empty user id
MalformedTokens ==
    LET admins == {u \in users : u.user_type = "admin"} IN
    {<<"b", "e", "a", "r", "e", "r", "_">> \o u.user_id \o <<"_">> \o str(7) : u \in admins}
    \cup {TokenPrefix \o u.user_id : u \in admins}
    \cup {TokenPrefix \o <<"_">> \o str(7)}

\* the bearer tokens the requests carry
TokenInputs == {generate_token(id, 7) : id \in UserIdInputs} \cup MalformedTokens

\* the bodies of the profile requests: the fields of a profile, and the same
\* with a key that names a role
ProfileInputs ==
    {[full_name |-> "Test User", phone |-> "9876543210"],
     [full_name |-> "Test User", phone |-> "9876543210", user_type |-> "admin"]}

PropertyInputs ==
    {[property_type |-> "apartment", rent |-> 10000, location |-> "Andheri West, Mumbai"]}

\* the bodies of the update requests: none of the fields, a new rent, and a
\* key that names another user as the owner
UpdateBodies ==
    {<<>>, [rent |-> 20000],
     [owner_id |-> find_one(sample_users(0), "user_type", "dealer").user_id]}

UpdateInputs == {PropertyUpdate(body) : body \in UpdateBodies}

\* the listings the requests name: one seeded listing of the owner, one of
\* the dealer, and every listing created by a request
NamedLocations ==
    {"Adani Oysters Grande, Sector 102, Gurugram, Haryana",
     "Emaar Palm Hills, Sector 77, Gurugram, Haryana"}
    \cup {property_data.location : property_data \in PropertyInputs}

\* ids a request names as a property or an interest: stored ones and the
\* unknown id
PropertyIdInputs ==
    {p.property_id : p \in {q \in properties : q.location \in NamedLocations}} \cup {UnknownId}

\* the users an admin's request names for deletion: the admin, the seeded
\* owner, the seeded verified tenant, the user a request registered
NamedEmails ==
    {"admin@realestate.com", "john.owner@realestate.com", "alex.tenant@realestate.com",
     "new.user@example.com"}

DeleteIdInputs == {u.user_id : u \in {v \in users : v.email \in NamedEmails}} \cup {UnknownId}

InterestIdInputs == {i.interest_id : i \in property_interests} \cup {UnknownId}

\* employer_name of the requests
EmployerInputs == {"Unknown Traders"}

\* the response query parameter of respond is a free string
ResponseInputs == {"approved", "rejected", "maybe"}

(***************************************************************************)
(* Serving a request: the store and the response become those of its       *)
(* outcome.  quota is the number of requests left in the behaviour.  A     *)
(* request that leaves the store as it was has no influence on any later   *)
(* request, so the exploration ends the behaviour with it: every store and *)
(* every response reachable with such requests in between is reached       *)
(* without them.                                                           *)
(***************************************************************************)
Serving == quota > 0

Serve(outcome) ==
    /\ Serving
    /\ users' = outcome.db.users
    /\ properties' = outcome.db.properties
    /\ property_interests' = outcome.db.property_interests
    /\ next_uuid' = outcome.db.next_uuid
    /\ quota' = IF outcome.db # db THEN quota - 1 ELSE 0
    /\ response' = outcome.response
    /\ UNCHANGED <<scenario, inflight>>

ResetDatabase == Serving /\ Serve(reset_database)

Register ==
    Serving /\
    \E email \in EmailInputs, phone \in PhoneInputs, password \in RegisterPasswordInputs,
       user_type \in UserTypeInputs, now \in TimeInputs :
       Serve(register_user(email, phone, password, user_type, now))

Login ==
    Serving /\
    \E email \in EmailInputs, password \in PasswordInputs, now \in TimeInputs :
       Serve(login_user(email, password, now))

\* an endpoint declared with current_user = Depends(verify_token): the
\* handler runs with the user the token resolves to, and a token that does
\* not verify ends the request with the 401 before the handler runs
Depends(token, handler(_)) ==
    LET auth == verify_token(token) IN
    IF auth.ok THEN handler(auth.user) ELSE Outcome(auth.error, db)

\* a request to an authenticated endpoint with a token that does not verify
\* (the same for every such endpoint; get_user_profile reads only)
Unauthenticated ==
    Serving /\
    \E token \in TokenInputs :
       ~verify_token(token).ok /\ Serve(Depends(token, LAMBDA current_user : Outcome(Reply(200, "profile"), db)))

UpdateUserProfile ==
    Serving /\
    \E token \in TokenInputs :
       verify_token(token).ok /\
       \E profile_data \in ProfileInputs :
          Serve(Depends(token, LAMBDA current_user : update_user_profile(profile_data, current_user)))

CreateProperty ==
    Serving /\
    \E token \in TokenInputs :
       verify_token(token).ok /\
       \E property_data \in PropertyInputs :
          Serve(Depends(token, LAMBDA current_user : create_property(property_data, current_user)))

UpdateProperty ==
    Serving /\
    \E token \in TokenInputs :
       verify_token(token).ok /\
       \E property_id \in PropertyIdInputs, update_dict \in UpdateInputs :
          Serve(Depends(token, LAMBDA current_user :
                    update_property(property_id, update_dict, current_user)))

VerifyKyc ==
    Serving /\
    \E token \in TokenInputs :
       verify_token(token).ok /\
       \E employer_name \in EmployerInputs, face_match \in FaceMatchOutcomes :
          Serve(Depends(token, LAMBDA current_user :
                    verify_kyc(employer_name, face_match, current_user)))

ExpressInterest ==
    Serving /\
    \E token \in TokenInputs :
       verify_token(token).ok /\
       \E property_id \in PropertyIdInputs :
          Serve(Depends(token, LAMBDA current_user : express_interest(property_id, current_user)))

GetInterests ==
    Serving /\
    \E token \in TokenInputs :
       verify_token(token).ok /\
       Serve(Depends(token, LAMBDA current_user : get_interests(current_user)))

RespondToInterest ==
    Serving /\
    \E token \in TokenInputs :
       verify_token(token).ok /\
       \E interest_id \in InterestIdInputs, resp \in ResponseInputs :
          Serve(Depends(token, LAMBDA current_user :
                    respond_to_interest(interest_id, resp, current_user)))

DeleteUser ==
    Serving /\
    \E token \in TokenInputs :
       verify_token(token).ok /\
       \E user_id \in DeleteIdInputs :
          Serve(Depends(token, LAMBDA current_user : delete_user(user_id, current_user)))

DeletePropertyAdmin ==
    Serving /\
    \E token \in TokenInputs :
       verify_token(token).ok /\
       \E property_id \in PropertyIdInputs :
          Serve(Depends(token, LAMBDA current_user :
                    delete_property_admin(property_id, current_user)))

Next ==
    \/ ResetDatabase
    \/ Register
    \/ Login
    \/ Unauthenticated
    \/ UpdateUserProfile
    \/ CreateProperty
    \/ UpdateProperty
    \/ VerifyKyc
    \/ ExpressInterest
    \/ GetInterests
    \/ RespondToInterest
    \/ DeleteUser
    \/ DeletePropertyAdmin

Spec == Init /\ [][Next]_vars

(***************************************************************************)
(* Searches of the catalog.  The store holds the seeded users and any      *)
(* listings the owner and the dealer have created in place of the seeded   *)
(* ones; every request is a get_properties.                                *)
(***************************************************************************)
SearchCatalog ==
    LET owner_user == find_one(sample_users(0), "user_type", "owner")
        dealer_user == find_one(sample_users(0), "user_type", "dealer") IN
    { PropertyDoc(uuid4(SeedSize + 1), owner_user.user_id, "apartment", 10000, "Goa"),
      PropertyDoc(uuid4(SeedSize + 2), owner_user.user_id, "house", 20000, "Agra"),
      PropertyDoc(uuid4(SeedSize + 3), owner_user.user_id, "apartment", 30000, "Goa"),
      PropertyDoc(uuid4(SeedSize + 4), dealer_user.user_id, "apartment", 20000, "Goa"),
      PropertyDoc(uuid4(SeedSize + 5), dealer_user.user_id, "house", 30000, "Agra") }

InitSearch ==
    /\ users = sample_users(0)
    /\ properties \in SUBSET SearchCatalog
    /\ property_interests = {}
    /\ next_uuid = SeedSize + Cardinality(SearchCatalog)
    /\ quota = MaxRequests
    /\ response = Reply(0, "startup")
    /\ scenario = ScenarioStart
    /\ inflight = [w \in Workers |-> Idle]

\* the user_type view of the request; "" is the request without one
ViewInputs == {"", "tenant"}

LocationInputs == {"", "goa", "gr", "G.a"}

MinRentInputs == {None, <<15000>>}

MaxRentInputs == {None, <<25000>>}

PropertyTypeInputs == {"", "all", "house"}

Search ==
    Serving /\
    \E token \in TokenInputs :
       verify_token(token).ok /\
       \E user_type \in ViewInputs, location \in LocationInputs, min_rent \in MinRentInputs,
          max_rent \in MaxRentInputs, property_type \in PropertyTypeInputs :
          Serve(Depends(token, LAMBDA current_user :
                    get_properties(user_type, location, min_rent, max_rent, property_type,
                                   current_user)))

NextSearch == Search

SpecSearch == InitSearch /\ [][NextSearch]_vars

(***************************************************************************)
(* The end-to-end scenario of run_comprehensive_test, on the seeded store: *)
(* a client registers a tenant, logs in, asks for a listing, runs the KYC  *)
(* verification until the face matches, asks for the listing again, and    *)
(* the owner of the listing approves.  `scenario` holds the request the    *)
(* client has reached, the token login gave it and the listing it chose;   *)
(* every request is served by the endpoint's handler.                      *)
(***************************************************************************)
ScenarioEmail == "new.user@example.com"

ScenarioPhones == {"9876543210", "9123456780"}

ScenarioEmployers == {"", "Infosys Limited", "Unknown Traders"}

InitScenario == Init

\* the store and the response become those of the outcome, and the client
\* moves on
ServeScenario(outcome, next) ==
    /\ users' = outcome.db.users
    /\ properties' = outcome.db.properties
    /\ property_interests' = outcome.db.property_interests
    /\ next_uuid' = outcome.db.next_uuid
    /\ response' = outcome.response
    /\ scenario' = next
    /\ UNCHANGED <<quota, inflight>>

ScenarioRegister ==
    /\ scenario.stage = "start"
    /\ \E phone \in ScenarioPhones, password \in RegisterPasswordInputs, now \in IssueTimes :
          ServeScenario(register_user(ScenarioEmail, phone, password, "tenant", now),
                        [scenario EXCEPT !.stage = "registered"])

ScenarioLogin ==
    /\ scenario.stage = "registered"
    /\ \E password \in RegisterPasswordInputs, now \in IssueTimes :
          LET outcome == login_user(ScenarioEmail, password, now) IN
          ServeScenario(outcome,
                        [scenario EXCEPT !.stage = "logged_in", !.token = outcome.response.token])

ScenarioExpressBeforeKyc ==
    /\ scenario.stage = "logged_in"
    /\ \E p \in properties :
          ServeScenario(Depends(scenario.token, LAMBDA current_user :
                                   express_interest(p.property_id, current_user)),
                        [scenario EXCEPT !.stage = "refused", !.property_id = p.property_id])

\* the client repeats the verification until the face matches
ScenarioVerifyKyc ==
    /\ scenario.stage = "refused"
    /\ \E employer_name \in ScenarioEmployers, face_match \in FaceMatchOutcomes :
          ServeScenario(Depends(scenario.token, LAMBDA current_user :
                                   verify_kyc(employer_name, face_match, current_user)),
                        [scenario EXCEPT
                            !.stage = IF face_match.status = "match" THEN "verified" ELSE "refused"])

ScenarioExpressAfterKyc ==
    /\ scenario.stage = "verified"
    /\ ServeScenario(Depends(scenario.token, LAMBDA current_user :
                                express_interest(scenario.property_id, current_user)),
                     [scenario EXCEPT !.stage = "interested"])

\* the interests the tenant of the scenario has on the listing it chose
ScenarioInterests ==
    {i \in property_interests :
        /\ i.property_id = scenario.property_id
        /\ find_one(users, "user_id", i.tenant_id).email = ScenarioEmail}

ScenarioRespond ==
    /\ scenario.stage = "interested"
    /\ \E i \in ScenarioInterests, now \in IssueTimes :
          ServeScenario(Depends(generate_token(i.owner_id, now), LAMBDA current_user :
                                   respond_to_interest(i.interest_id, "approved", current_user)),
                        [scenario EXCEPT !.stage = "responded"])

NextScenario ==
    \/ ScenarioRegister
    \/ ScenarioLogin
    \/ ScenarioExpressBeforeKyc
    \/ ScenarioVerifyKyc
    \/ ScenarioExpressAfterKyc
    \/ ScenarioRespond

SpecScenario == InitScenario /\ [][NextScenario]_vars

(***************************************************************************)
(* Requests served concurrently against the shared store.  Each worker     *)
(* serves one request; a step of a worker is the part of the handler up to *)
(* and including its next store operation, and the steps of the workers    *)
(* interleave.  The store is the seeded one after the verified tenant has  *)
(* expressed interest in a listing of the owner.                           *)
(***************************************************************************)
PendingInterest ==
    LET tenant == find_one(sample_users(0), "email", "alex.tenant@realestate.com")
        property_doc == find_one(sample_properties(0), "location",
                                 "Adani Oysters Grande, Sector 102, Gurugram, Haryana") IN
    InterestDoc(uuid4(SeedSize + 1), property_doc.property_id, tenant.user_id,
                property_doc.owner_id)

InitConcurrent ==
    /\ users = sample_users(0)
    /\ properties = sample_properties(0)
    /\ property_interests = {PendingInterest}
    /\ next_uuid = SeedSize + 1
    /\ quota = MaxRequests
    /\ response = Reply(200, "Interest expressed successfully")
    /\ scenario = ScenarioStart
    /\ inflight = [w \in Workers |-> Idle]

\* the request of worker w has ended with the response resp
Done(w, endpoint, resp) ==
    [inflight EXCEPT ![w] = [endpoint |-> endpoint, pc |-> "done", response |-> resp]]

ConcurrentEmails == {"new.user@example.com", "other.user@example.com"}

ConcurrentPhones == {"9876543210", "9123456780"}

\* register_user up to db.users.find_one({"email": ...})
RegisterFindEmail(w) ==
    /\ inflight[w] = Idle
    /\ \E email \in ConcurrentEmails, phone \in ConcurrentPhones,
          password \in RegisterPasswordInputs, now \in TimeInputs :
          LET resp == HTTPException(400, "User with this email already exists") IN
          IF find_one(users, "email", email) # NoDoc
          THEN inflight' = Done(w, "register_user", resp) /\ response' = resp
          ELSE /\ inflight' = [inflight EXCEPT ![w] =
                                  [endpoint |-> "register_user", pc |-> "find_phone",
                                   email |-> email, phone |-> phone, password |-> password,
                                   now |-> now]]
               /\ UNCHANGED response
    /\ UNCHANGED <<users, properties, property_interests, next_uuid, quota, scenario>>

\* register_user up to db.users.find_one({"phone": ...}); the user id is
\* drawn before the insert
RegisterFindPhone(w) ==
    /\ inflight[w].endpoint = "register_user" /\ inflight[w].pc = "find_phone"
    /\ LET resp == HTTPException(400, "User with this phone number already exists") IN
       IF find_one(users, "phone", inflight[w].phone) # NoDoc
       THEN inflight' = Done(w, "register_user", resp) /\ response' = resp /\ UNCHANGED next_uuid
       ELSE /\ inflight' = [inflight EXCEPT ![w] =
                               [endpoint |-> "register_user", pc |-> "insert",
                                user_doc |-> UserDoc(uuid4(next_uuid + 1), inflight[w].email,
                                                     inflight[w].phone, inflight[w].password,
                                                     "tenant", FALSE, FALSE, Absent, Absent),
                                now |-> inflight[w].now]]
            /\ next_uuid' = next_uuid + 1
            /\ UNCHANGED response
    /\ UNCHANGED <<users, properties, property_interests, quota, scenario>>

\* db.users.insert_one(user_doc): the unique indexes on email and user_id
\* refuse a duplicate, and the handler answers the error with its 500
RegisterInsert(w) ==
    /\ inflight[w].endpoint = "register_user" /\ inflight[w].pc = "insert"
    /\ LET user_doc == inflight[w].user_doc
           duplicate == \E u \in users : u.email = user_doc.email \/ u.user_id = user_doc.user_id
           resp == IF duplicate
                   THEN HTTPException(500, "Registration failed. Please try again.")
                   ELSE [status_code |-> 200, detail |-> "User registered successfully",
                         token |-> generate_token(user_doc.user_id, inflight[w].now)] IN
       /\ users' = IF duplicate THEN users ELSE users \cup {user_doc}
       /\ inflight' = Done(w, "register_user", resp)
       /\ response' = resp
    /\ UNCHANGED <<properties, property_interests, next_uuid, quota, scenario>>

\* the owner and the dealer answer interests
ConcurrentTokens ==
    {generate_token(u.user_id, 7) : u \in {v \in users : v.user_type \in {"owner", "dealer"}}}

\* respond_to_interest up to the check of the role: verify_token has read
\* the caller's record
RespondVerifyToken(w) ==
    /\ inflight[w] = Idle
    /\ \E token \in ConcurrentTokens, interest_id \in InterestIdInputs,
          resp \in {"approved", "rejected"} :
          LET auth == verify_token(token) IN
          IF ~auth.ok
          THEN inflight' = Done(w, "respond_to_interest", auth.error) /\ response' = auth.error
          ELSE IF auth.user.user_type \notin {"owner", "dealer"}
          THEN LET error == HTTPException(403, "Only owners and dealers can respond to interests") IN
               inflight' = Done(w, "respond_to_interest", error) /\ response' = error
          ELSE /\ inflight' = [inflight EXCEPT ![w] =
                                  [endpoint |-> "respond_to_interest", pc |-> "find_interest",
                                   current_user |-> auth.user, interest_id |-> interest_id,
                                   resp |-> resp]]
               /\ UNCHANGED response
    /\ UNCHANGED <<users, properties, property_interests, next_uuid, quota, scenario>>

\* respond_to_interest up to the check of the owner: find_one has read the
\* interest
RespondFindInterest(w) ==
    /\ inflight[w].endpoint = "respond_to_interest" /\ inflight[w].pc = "find_interest"
    /\ LET interest_doc == find_one(property_interests, "interest_id", inflight[w].interest_id)
           error == IF interest_doc = NoDoc
                    THEN HTTPException(404, "Interest not found")
                    ELSE HTTPException(403, "Not authorized to respond to this interest") IN
       IF interest_doc = NoDoc \/ interest_doc.owner_id # inflight[w].current_user.user_id
       THEN inflight' = Done(w, "respond_to_interest", error) /\ response' = error
       ELSE /\ inflight' = [inflight EXCEPT ![w].pc = "update"]
            /\ UNCHANGED response
    /\ UNCHANGED <<users, properties, property_interests, next_uuid, quota, scenario>>

\* the position of the next status write among the writes applied so far
NextApplied == Cardinality({v \in Workers : "applied" \in DOMAIN inflight[v]}) + 1

\* db.property_interests.update_one({"interest_id": ...}, {"$set": ...})
RespondUpdate(w) ==
    /\ inflight[w].endpoint = "respond_to_interest" /\ inflight[w].pc = "update"
    /\ LET resp == Reply(200, RespondMessage(inflight[w].resp)) IN
       /\ property_interests' =
             update_one(property_interests, "interest_id", inflight[w].interest_id,
                        [status |-> inflight[w].resp,
                         responded_by |-> inflight[w].current_user.user_id])
       /\ inflight' = [inflight EXCEPT ![w] =
                          [endpoint |-> "respond_to_interest", pc |-> "done", response |-> resp,
                           interest_id |-> inflight[w].interest_id, resp |-> inflight[w].resp,
                           applied |-> NextApplied]]
       /\ response' = resp
    /\ UNCHANGED <<users, properties, next_uuid, quota, scenario>>

\* the request of worker w ends with the response resp
Finish(w, endpoint, resp) == inflight' = Done(w, endpoint, resp) /\ response' = resp

\* the request of worker w goes on from the position the record names
Continue(w, position) == inflight' = [inflight EXCEPT ![w] = position] /\ UNCHANGED response

\* the users the concurrent requests act for or name: the seeded admin,
\* the seeded owner and the seeded verified tenant
ConcurrentAdmin == find_one(sample_users(0), "user_type", "admin")

ConcurrentOwner == find_one(sample_users(0), "user_type", "owner")

ConcurrentTenant == find_one(sample_users(0), "email", "alex.tenant@realestate.com")

\* the listing the concurrent requests name
ConcurrentPropertyIds == {PendingInterest.property_id}

\* the users the admin's concurrent requests delete
ConcurrentDeleteIds == {ConcurrentTenant.user_id, ConcurrentOwner.user_id}

\* express_interest up to the tests of the role and of kyc_completed:
\* verify_token has read the caller's record, and the tests use that copy
ExpressVerifyToken(w) ==
    /\ inflight[w] = Idle
    /\ \E property_id \in ConcurrentPropertyIds :
          LET auth == verify_token(generate_token(ConcurrentTenant.user_id, 7)) IN
          IF ~auth.ok
          THEN Finish(w, "express_interest", auth.error)
          ELSE IF auth.user.user_type # "tenant"
          THEN Finish(w, "express_interest", HTTPException(403, "Only tenants can express interest"))
          ELSE IF ~auth.user.kyc_completed
          THEN Finish(w, "express_interest", HTTPException(400, "Complete KYC verification first"))
          ELSE Continue(w, [endpoint |-> "express_interest", pc |-> "find_property",
                            current_user |-> auth.user, property_id |-> property_id])
    /\ UNCHANGED <<users, properties, property_interests, next_uuid, quota, scenario>>

\* express_interest up to db.properties.find_one({"property_id": ...}); the
\* interest id is drawn before the insert
ExpressFindProperty(w) ==
    /\ inflight[w].endpoint = "express_interest" /\ inflight[w].pc = "find_property"
    /\ LET property_doc == find_one(properties, "property_id", inflight[w].property_id) IN
       IF property_doc = NoDoc
       THEN Finish(w, "express_interest", HTTPException(404, "Property not found"))
            /\ UNCHANGED next_uuid
       ELSE /\ Continue(w, [endpoint |-> "express_interest", pc |-> "insert",
                            interest_doc |-> InterestDoc(uuid4(next_uuid + 1),
                                                         inflight[w].property_id,
                                                         inflight[w].current_user.user_id,
                                                         property_doc.owner_id)])
            /\ next_uuid' = next_uuid + 1
    /\ UNCHANGED <<users, properties, property_interests, quota, scenario>>

\* db.property_interests.insert_one(interest_doc)
ExpressInsert(w) ==
    /\ inflight[w].endpoint = "express_interest" /\ inflight[w].pc = "insert"
    /\ property_interests' = property_interests \cup {inflight[w].interest_doc}
    /\ Finish(w, "express_interest", Reply(200, "Interest expressed successfully"))
    /\ UNCHANGED <<users, properties, next_uuid, quota, scenario>>

\* verify_kyc up to the verification results: verify_token has read the
\* caller's record and the collaborators have answered
KycVerifyToken(w) ==
    /\ inflight[w] = Idle
    /\ \E employer_name \in EmployerInputs, face_match \in FaceMatchOutcomes :
          LET auth == verify_token(generate_token(ConcurrentTenant.user_id, 7)) IN
          IF ~auth.ok
          THEN Finish(w, "verify_kyc", auth.error)
          ELSE IF auth.user.user_type # "tenant"
          THEN Finish(w, "verify_kyc", HTTPException(403, "Only tenants can complete KYC"))
          ELSE Continue(w, [endpoint |-> "verify_kyc", pc |-> "update",
                            current_user |-> auth.user,
                            results |-> verification_results(employer_name, face_match)])
    /\ UNCHANGED <<users, properties, property_interests, next_uuid, quota, scenario>>

\* db.users.update_one({"user_id": ...}, {"$set": {"kyc_completed": ...}})
KycUpdate(w) ==
    /\ inflight[w].endpoint = "verify_kyc" /\ inflight[w].pc = "update"
    /\ users' = update_one(users, "user_id", inflight[w].current_user.user_id,
                           [kyc_completed |-> kyc_status(inflight[w].results),
                            kyc_results |-> inflight[w].results])
    /\ Finish(w, "verify_kyc", Reply(200, "KYC verification completed"))
    /\ UNCHANGED <<properties, property_interests, next_uuid, quota, scenario>>

\* create_property up to the test of the role: verify_token has read the
\* caller's record; the property id is drawn before the insert
CreateVerifyToken(w) ==
    /\ inflight[w] = Idle
    /\ \E property_data \in PropertyInputs :
          LET auth == verify_token(generate_token(ConcurrentOwner.user_id, 7)) IN
          IF ~auth.ok
          THEN Finish(w, "create_property", auth.error) /\ UNCHANGED next_uuid
          ELSE IF auth.user.user_type \notin {"owner", "dealer"}
          THEN Finish(w, "create_property",
                      HTTPException(403, "Only owners and dealers can create properties"))
               /\ UNCHANGED next_uuid
          ELSE /\ Continue(w, [endpoint |-> "create_property", pc |-> "insert",
                               property_doc |-> PropertyDoc(uuid4(next_uuid + 1),
                                                            auth.user.user_id,
                                                            property_data.property_type,
                                                            property_data.rent,
                                                            property_data.location)])
               /\ next_uuid' = next_uuid + 1
    /\ UNCHANGED <<users, properties, property_interests, quota, scenario>>

\* db.properties.insert_one(property_doc)
CreateInsert(w) ==
    /\ inflight[w].endpoint = "create_property" /\ inflight[w].pc = "insert"
    /\ properties' = properties \cup {inflight[w].property_doc}
    /\ Finish(w, "create_property", Reply(200, "Property created successfully"))
    /\ UNCHANGED <<users, property_interests, next_uuid, quota, scenario>>

\* delete_user up to the tests of the role and of self-deletion:
\* verify_token has read the caller's record
DeleteUserVerifyToken(w) ==
    /\ inflight[w] = Idle
    /\ \E user_id \in ConcurrentDeleteIds :
          LET auth == verify_token(generate_token(ConcurrentAdmin.user_id, 7)) IN
          IF ~auth.ok
          THEN Finish(w, "delete_user", auth.error)
          ELSE IF auth.user.user_type # "admin"
          THEN Finish(w, "delete_user", HTTPException(403, "Admin access required"))
          ELSE IF user_id = auth.user.user_id
          THEN Finish(w, "delete_user", HTTPException(400, "Cannot delete your own admin account"))
          ELSE Continue(w, [endpoint |-> "delete_user", pc |-> "find_user", user_id |-> user_id])
    /\ UNCHANGED <<users, properties, property_interests, next_uuid, quota, scenario>>

\* delete_user up to db.users.find_one({"user_id": user_id})
DeleteUserFind(w) ==
    /\ inflight[w].endpoint = "delete_user" /\ inflight[w].pc = "find_user"
    /\ IF find_one(users, "user_id", inflight[w].user_id) = NoDoc
       THEN Finish(w, "delete_user", HTTPException(404, "User not found"))
       ELSE Continue(w, [inflight[w] EXCEPT !.pc = "delete_user"])
    /\ UNCHANGED <<users, properties, property_interests, next_uuid, quota, scenario>>

\* db.users.delete_one({"user_id": user_id})
DeleteUserDeleteOne(w) ==
    /\ inflight[w].endpoint = "delete_user" /\ inflight[w].pc = "delete_user"
    /\ users' = delete_many(users, "user_id", inflight[w].user_id)
    /\ Continue(w, [inflight[w] EXCEPT !.pc = "delete_properties"])
    /\ UNCHANGED <<properties, property_interests, next_uuid, quota, scenario>>

\* db.properties.delete_many({"owner_id": user_id})
DeleteUserDeleteProperties(w) ==
    /\ inflight[w].endpoint = "delete_user" /\ inflight[w].pc = "delete_properties"
    /\ properties' = delete_many(properties, "owner_id", inflight[w].user_id)
    /\ Continue(w, [inflight[w] EXCEPT !.pc = "delete_interests"])
    /\ UNCHANGED <<users, property_interests, next_uuid, quota, scenario>>

\* db.property_interests.delete_many({"$or": [{"tenant_id": ...}, {"owner_id": ...}]})
DeleteUserDeleteInterests(w) ==
    /\ inflight[w].endpoint = "delete_user" /\ inflight[w].pc = "delete_interests"
    /\ property_interests' = delete_many(delete_many(property_interests, "tenant_id",
                                                     inflight[w].user_id),
                                         "owner_id", inflight[w].user_id)
    /\ Finish(w, "delete_user", Reply(200, "User deleted successfully"))
    /\ UNCHANGED <<users, properties, next_uuid, quota, scenario>>

\* delete_property_admin up to the test of the role: verify_token has read
\* the caller's record
DeletePropertyVerifyToken(w) ==
    /\ inflight[w] = Idle
    /\ \E property_id \in ConcurrentPropertyIds :
          LET auth == verify_token(generate_token(ConcurrentAdmin.user_id, 7)) IN
          IF ~auth.ok
          THEN Finish(w, "delete_property_admin", auth.error)
          ELSE IF auth.user.user_type # "admin"
          THEN Finish(w, "delete_property_admin", HTTPException(403, "Admin access required"))
          ELSE Continue(w, [endpoint |-> "delete_property_admin", pc |-> "find_property",
                            property_id |-> property_id])
    /\ UNCHANGED <<users, properties, property_interests, next_uuid, quota, scenario>>

\* delete_property_admin up to db.properties.find_one({"property_id": ...})
DeletePropertyFind(w) ==
    /\ inflight[w].endpoint = "delete_property_admin" /\ inflight[w].pc = "find_property"
    /\ IF find_one(properties, "property_id", inflight[w].property_id) = NoDoc
       THEN Finish(w, "delete_property_admin", HTTPException(404, "Property not found"))
       ELSE Continue(w, [inflight[w] EXCEPT !.pc = "delete_property"])
    /\ UNCHANGED <<users, properties, property_interests, next_uuid, quota, scenario>>

\* db.properties.delete_one({"property_id": property_id})
DeletePropertyDeleteOne(w) ==
    /\ inflight[w].endpoint = "delete_property_admin" /\ inflight[w].pc = "delete_property"
    /\ properties' = delete_many(properties, "property_id", inflight[w].property_id)
    /\ Continue(w, [inflight[w] EXCEPT !.pc = "delete_interests"])
    /\ UNCHANGED <<users, property_interests, next_uuid, quota, scenario>>

\* db.property_interests.delete_many({"property_id": property_id})
DeletePropertyDeleteInterests(w) ==
    /\ inflight[w].endpoint = "delete_property_admin" /\ inflight[w].pc = "delete_interests"
    /\ property_interests' = delete_many(property_interests, "property_id",
                                         inflight[w].property_id)
    /\ Finish(w, "delete_property_admin", Reply(200, "Property deleted successfully"))
    /\ UNCHANGED <<users, properties, next_uuid, quota, scenario>>

NextConcurrent ==
    \E w \in Workers :
       \/ RegisterFindEmail(w)
       \/ RegisterFindPhone(w)
       \/ RegisterInsert(w)
       \/ RespondVerifyToken(w)
       \/ RespondFindInterest(w)
       \/ RespondUpdate(w)
       \/ ExpressVerifyToken(w)
       \/ ExpressFindProperty(w)
       \/ ExpressInsert(w)
       \/ KycVerifyToken(w)
       \/ KycUpdate(w)
       \/ CreateVerifyToken(w)
       \/ CreateInsert(w)
       \/ DeleteUserVerifyToken(w)
       \/ DeleteUserFind(w)
       \/ DeleteUserDeleteOne(w)
       \/ DeleteUserDeleteProperties(w)
       \/ DeleteUserDeleteInterests(w)
       \/ DeletePropertyVerifyToken(w)
       \/ DeletePropertyFind(w)
       \/ DeletePropertyDeleteOne(w)
       \/ DeletePropertyDeleteInterests(w)

SpecConcurrent == InitConcurrent /\ [][NextConcurrent]_vars

(***************************************************************************)
(* Vocabulary of the properties.                                           *)
(***************************************************************************)
\* the users the tokens of the requests resolve to
Callers == {verify_token(token).user : token \in {t \in TokenInputs : verify_token(t).ok}}

\* every stored property id, and the unknown id
AnyPropertyId == {p.property_id : p \in properties} \cup {UnknownId}

KYCRequired == HTTPException(400, "Complete KYC verification first")

Forbidden(outcome) == outcome.response.status_code = 403 /\ outcome.db = db

NotFound(outcome) == outcome.response.status_code = 404 /\ outcome.db = db

ValidationFailed(outcome) == outcome.response.status_code = 400 /\ outcome.db = db

Unauthenticated401(outcome) ==
    /\ outcome.response.status_code = 401
    /\ outcome.response.detail \in {"Invalid token", "Invalid token format", "User not found"}
    /\ outcome.db = db

StoredUser(store, user_id) == find_one(store.users, "user_id", user_id)

(***************************************************************************)
(* C1: express_interest called by a tenant whose stored kyc_completed is   *)
(* false fails with KYCRequired and inserts no interest, whether the named *)
(* property exists or not.                                                 *)
(***************************************************************************)
C1_KycGating ==
    Serving =>
    \A current_user \in Callers, property_id \in AnyPropertyId :
       (current_user.user_type = "tenant" /\ ~current_user.kyc_completed) =>
          LET outcome == express_interest(property_id, current_user) IN
          /\ outcome.response = KYCRequired
          /\ outcome.db = db

\* a tenant without KYC has been refused while listings exist
C1_Witness ==
    /\ response = KYCRequired
    /\ properties # {}
    /\ \E u \in users : u.user_type = "tenant" /\ ~u.kyc_completed

(***************************************************************************)
(* C2: an interest whose status is approved or rejected keeps that status  *)
(* in every step: its status changes at most once, out of pending.         *)
(***************************************************************************)
C2_TerminalStatusKept ==
    [][\A i \in property_interests :
          i.status \in {"approved", "rejected"} =>
             \A j \in property_interests' : j.interest_id = i.interest_id => j.status = i.status]_vars

(***************************************************************************)
(* C3: respond succeeds only for the owning user of the interest's         *)
(* property; any other caller of a stored interest gets Forbidden; an      *)
(* unknown interest id gets NotFound; the store is unchanged in both cases.*)
(***************************************************************************)
OwnsPropertyOf(current_user, interest_doc) ==
    \E p \in properties :
       p.property_id = interest_doc.property_id /\ p.owner_id = current_user.user_id

\* the statement as claimed: NotFound for an unknown id, whoever calls
C3_RespondErrorsAsClaimed ==
    Serving =>
    \A current_user \in Callers, interest_id \in InterestIdInputs, resp \in ResponseInputs :
       LET outcome == respond_to_interest(interest_id, resp, current_user)
           interest_doc == find_one(property_interests, "interest_id", interest_id) IN
       /\ outcome.response.status_code = 200 =>
             interest_doc # NoDoc /\ OwnsPropertyOf(current_user, interest_doc)
       /\ (interest_doc # NoDoc /\ ~OwnsPropertyOf(current_user, interest_doc)) => Forbidden(outcome)
       /\ interest_doc = NoDoc => NotFound(outcome)

\* amended: an unknown id gets NotFound from an owner or dealer, and
\* Forbidden from a caller of any other role
C3_RespondErrors ==
    Serving =>
    \A current_user \in Callers, interest_id \in InterestIdInputs, resp \in ResponseInputs :
       LET outcome == respond_to_interest(interest_id, resp, current_user)
           interest_doc == find_one(property_interests, "interest_id", interest_id) IN
       /\ outcome.response.status_code = 200 =>
             interest_doc # NoDoc /\ OwnsPropertyOf(current_user, interest_doc)
       /\ (interest_doc # NoDoc /\ ~OwnsPropertyOf(current_user, interest_doc)) => Forbidden(outcome)
       /\ interest_doc = NoDoc =>
             IF current_user.user_type \in {"owner", "dealer"}
             THEN NotFound(outcome) ELSE Forbidden(outcome)

\* an owner or dealer has been refused on an interest of another's listing
C3_Witness ==
    /\ response = HTTPException(403, "Not authorized to respond to this interest")
    /\ property_interests # {}

(***************************************************************************)
(* C4: interests are created only by express_interest called by a tenant.  *)
(* A non-tenant gets Forbidden, a KYC-verified tenant naming an unknown    *)
(* property gets NotFound, and a successful call inserts exactly one       *)
(* interest: pending, tenant_id the caller, owner_id the property's owner. *)
(* No other request adds an interest.                                      *)
(***************************************************************************)
\* the outcomes of every request that is not express_interest
OtherOutcomes ==
    {reset_database}
    \cup {register_user(email, phone, password, user_type, now) :
            <<email, phone, password, user_type, now>> \in
               EmailInputs \X PhoneInputs \X RegisterPasswordInputs \X UserTypeInputs \X TimeInputs}
    \cup {login_user(email, password, now) :
            <<email, password, now>> \in EmailInputs \X PasswordInputs \X TimeInputs}
    \cup UNION {
           {update_user_profile(profile_data, current_user) : profile_data \in ProfileInputs}
           \cup {create_property(property_data, current_user) : property_data \in PropertyInputs}
           \cup {update_property(property_id, update_dict, current_user) :
                   <<property_id, update_dict>> \in AnyPropertyId \X UpdateInputs}
           \cup {verify_kyc(employer_name, face_match, current_user) :
                   <<employer_name, face_match>> \in EmployerInputs \X FaceMatchOutcomes}
           \cup {respond_to_interest(interest_id, resp, current_user) :
                   <<interest_id, resp>> \in InterestIdInputs \X ResponseInputs}
           \cup {delete_user(user_id, current_user) : user_id \in UserIdInputs}
           \cup {delete_property_admin(property_id, current_user) : property_id \in AnyPropertyId}
           \cup {get_interests(current_user)}
           : current_user \in Callers}

InterestIds(store) == {i.interest_id : i \in store.property_interests}

C4_InterestCreation ==
    Serving =>
    /\ \A current_user \in Callers, property_id \in AnyPropertyId :
          LET outcome == express_interest(property_id, current_user)
              property_doc == find_one(properties, "property_id", property_id)
              added == outcome.db.property_interests \ property_interests IN
          /\ current_user.user_type # "tenant" => Forbidden(outcome)
          /\ (current_user.user_type = "tenant" /\ current_user.kyc_completed
                 /\ property_doc = NoDoc) => NotFound(outcome)
          /\ outcome.response.status_code # 200 => outcome.db = db
          /\ outcome.response.status_code = 200 =>
                /\ current_user.user_type = "tenant"
                /\ property_interests \subseteq outcome.db.property_interests
                /\ Cardinality(added) = 1
                /\ \A i \in added :
                      /\ i.interest_id \notin InterestIds(db)
                      /\ i.status = "pending"
                      /\ i.property_id = property_id
                      /\ i.tenant_id = current_user.user_id
                      /\ property_doc # NoDoc /\ i.owner_id = property_doc.owner_id
                /\ outcome.db.users = users /\ outcome.db.properties = properties
    /\ \A outcome \in OtherOutcomes : InterestIds(outcome.db) \subseteq InterestIds(db)

\* a tenant's interest has been inserted
C4_Witness ==
    /\ response = Reply(200, "Interest expressed successfully")
    /\ \E i \in property_interests :
          /\ i.status = "pending"
          /\ \E u \in users : u.user_id = i.tenant_id /\ u.user_type = "tenant"
          /\ \E p \in properties : p.property_id = i.property_id /\ p.owner_id = i.owner_id

(***************************************************************************)
(* C5: a registration whose email or phone equals that of a stored user    *)
(* fails with ValidationFailed and adds no user.                           *)
(***************************************************************************)
C5_DuplicateRegistration ==
    Serving =>
    \A email \in EmailInputs \cup {u.email : u \in users},
       phone \in PhoneInputs \cup {u.phone : u \in users},
       password \in RegisterPasswordInputs, user_type \in UserTypeInputs, now \in TimeInputs :
       (\E u \in users : u.email = email \/ u.phone = phone) =>
          ValidationFailed(register_user(email, phone, password, user_type, now))

\* a registration with a new email and a stored phone number was refused
C5_Witness ==
    /\ response = HTTPException(400, "User with this phone number already exists")
    /\ \E u \in users : u.phone \in PhoneInputs

(***************************************************************************)
(* C6: a token issued for a user resolves through verify_token to that     *)
(* user in every reachable store where the user's record exists, whatever  *)
(* the time of issue; where the record does not exist (it was deleted, or  *)
(* the id never was a user's) verify_token fails with 401.                 *)
(***************************************************************************)
C6_TokenRoundTrip ==
    /\ Serving =>
          \A n \in 0..next_uuid, now \in IssueTimes :
             LET user_id == uuid4(n)
                 auth == verify_token(generate_token(user_id, now)) IN
             IF StoredUser(db, user_id) # NoDoc
             THEN auth.ok /\ auth.user = StoredUser(db, user_id)
             ELSE ~auth.ok /\ auth.error.status_code = 401
    /\ response.token # NoToken =>
          /\ response.detail \in {"User registered successfully", "Login successful"}
          /\ verify_token(response.token).ok

\* the admin has deleted a seeded user: the token of that user fails, the
\* admin's token still resolves
C6_Witness ==
    /\ response = Reply(200, "User deleted successfully")
    /\ \E n \in 1..SeedSize :
          /\ uuid4(n) \in {u.user_id : u \in sample_users(0)}
          /\ ~verify_token(generate_token(uuid4(n), 42)).ok
    /\ \E u \in users : u.user_type = "admin" /\ verify_token(generate_token(u.user_id, 42)).ok

(***************************************************************************)
(* C7: verify_token fails with 401 for every token that lacks the prefix   *)
(* "token_", has fewer than three segments between underscores, or names a *)
(* user id with no stored user; an endpoint that depends on verify_token   *)
(* answers such a token with that 401 and leaves the store as it was.      *)
(***************************************************************************)
LacksPrefix(token) ==
    \E i \in 1..Len(TokenPrefix) : i > Len(token) \/ token[i] # TokenPrefix[i]

Underscores(token) == {i \in 1..Len(token) : token[i] = "_"}

Segments(token) == Cardinality(Underscores(token)) + 1

\* the characters between the first underscore and the second
NamedUserId(token) ==
    LET first == CHOOSE i \in Underscores(token) : \A j \in Underscores(token) : i <= j
        second == CHOOSE i \in Underscores(token) \ {first} :
                     \A j \in Underscores(token) \ {first} : i <= j IN
    SubSeq(token, first + 1, second - 1)

BadToken(token) ==
    \/ LacksPrefix(token)
    \/ Segments(token) < 3
    \/ \A u \in users : u.user_id # NamedUserId(token)

\* the outcomes of every authenticated endpoint for a request with `token`
AuthenticatedOutcomes(token) ==
    {Depends(token, LAMBDA current_user : update_user_profile(profile_data, current_user)) :
        profile_data \in ProfileInputs}
    \cup {Depends(token, LAMBDA current_user : create_property(property_data, current_user)) :
        property_data \in PropertyInputs}
    \cup {Depends(token, LAMBDA current_user : update_property(x[1], x[2], current_user)) :
        x \in AnyPropertyId \X UpdateInputs}
    \cup {Depends(token, LAMBDA current_user : verify_kyc(x[1], x[2], current_user)) :
        x \in EmployerInputs \X FaceMatchOutcomes}
    \cup {Depends(token, LAMBDA current_user : express_interest(property_id, current_user)) :
        property_id \in AnyPropertyId}
    \cup {Depends(token, LAMBDA current_user : respond_to_interest(x[1], x[2], current_user)) :
        x \in InterestIdInputs \X ResponseInputs}
    \cup {Depends(token, LAMBDA current_user : delete_user(user_id, current_user)) :
        user_id \in UserIdInputs}
    \cup {Depends(token, LAMBDA current_user : delete_property_admin(property_id, current_user)) :
        property_id \in AnyPropertyId}
    \cup {Depends(token, LAMBDA current_user : get_interests(current_user))}

C7_BadTokenRejected ==
    Serving =>
    \A token \in TokenInputs :
       BadToken(token) =>
          /\ ~verify_token(token).ok
          /\ \A outcome \in AuthenticatedOutcomes(token) : Unauthenticated401(outcome)

\* a request with a token that does not verify has been answered
C7_Witness ==
    /\ response.status_code = 401
    /\ response.detail \in {"Invalid token", "Invalid token format", "User not found"}
    /\ \E token \in MalformedTokens : BadToken(token)

(***************************************************************************)
(* C8: update_property by a caller who is neither the owner of the         *)
(* property nor an admin fails with Forbidden, update_property of an       *)
(* unknown property id fails with NotFound, and in both cases the store is *)
(* unchanged.                                                              *)
(***************************************************************************)
C8_UpdatePropertyErrors ==
    Serving =>
    \A current_user \in Callers, property_id \in AnyPropertyId, update_dict \in UpdateInputs :
       LET outcome == update_property(property_id, update_dict, current_user)
           property_doc == find_one(properties, "property_id", property_id) IN
       /\ property_doc = NoDoc => NotFound(outcome)
       /\ (property_doc # NoDoc /\ property_doc.owner_id # current_user.user_id
              /\ current_user.user_type # "admin") => Forbidden(outcome)

\* a caller has been refused the update of another user's listing
C8_Witness ==
    /\ response = HTTPException(403, "Not authorized to update this property")
    /\ \E p \in properties, u \in users : u.user_type # "admin" /\ p.owner_id # u.user_id

(***************************************************************************)
(* C9: verify_kyc called by a tenant stores on the caller's record         *)
(* kyc_completed = (aadhaar status is verified AND pan status is verified  *)
(* AND face match status is match); the digilocker documents and the       *)
(* employer result are stored in kyc_results and never change              *)
(* kyc_completed.                                                          *)
(***************************************************************************)
\* "" is the request without an employer name
EmployerNames == {""} \cup EmployerInputs \cup valid_companies

C9_KycOutcome ==
    Serving =>
    \A current_user \in Callers :
       current_user.user_type = "tenant" =>
          \A employer_name \in EmployerNames, face_match \in FaceMatchOutcomes :
             LET outcome == verify_kyc(employer_name, face_match, current_user)
                 stored == StoredUser(outcome.db, current_user.user_id)
                 results == stored.kyc_results IN
             /\ outcome.response.status_code = 200
             /\ results.face_match = face_match
             /\ stored.kyc_completed =
                   (/\ results.aadhaar_verification.status = "verified"
                    /\ results.pan_verification.status = "verified"
                    /\ results.face_match.status = "match")
             /\ results.digilocker_docs = mock_digilocker_fetch_docs
             /\ employer_name # "" =>
                   results.employer_verification = mock_mca_employer_verify(employer_name)
             /\ stored.kyc_completed =
                   StoredUser(verify_kyc("", face_match, current_user).db,
                              current_user.user_id).kyc_completed
             /\ {u \in outcome.db.users : u.user_id # current_user.user_id}
                   = {u \in users : u.user_id # current_user.user_id}

\* a tenant is verified although the employer was not found
C9_Witness ==
    /\ response = Reply(200, "KYC verification completed")
    /\ \E u \in users :
          /\ u.user_type = "tenant"
          /\ u.kyc_completed
          /\ u.kyc_results # Absent
          /\ u.kyc_results.digilocker_docs = mock_digilocker_fetch_docs
          /\ u.kyc_results.employer_verification # Absent
          /\ ~u.kyc_results.employer_verification.company_found

(***************************************************************************)
(* C10: verify_kyc called by a user whose role is not tenant fails with    *)
(* Forbidden and leaves kyc_completed and kyc_results of every user        *)
(* unchanged.                                                              *)
(***************************************************************************)
KycFields(store) ==
    {[user_id |-> u.user_id, kyc_completed |-> u.kyc_completed, kyc_results |-> u.kyc_results] :
        u \in store.users}

C10_KycTenantOnly ==
    Serving =>
    \A current_user \in Callers :
       current_user.user_type # "tenant" =>
          \A employer_name \in EmployerNames, face_match \in FaceMatchOutcomes :
             LET outcome == verify_kyc(employer_name, face_match, current_user) IN
             /\ outcome.response = HTTPException(403, "Only tenants can complete KYC")
             /\ KycFields(outcome.db) = KycFields(db)

\* an owner, a dealer or an admin has been refused the verification
C10_Witness ==
    /\ response = HTTPException(403, "Only tenants can complete KYC")
    /\ \E u \in users : u.user_type # "tenant"

(***************************************************************************)
(* C11: after an admin's delete_user(u) completes for a stored user u      *)
(* other than the caller, the store holds no user u, no property whose     *)
(* owner_id is u and no interest whose tenant_id or owner_id is u; the     *)
(* users, properties and interests of the other users are unchanged.       *)
(***************************************************************************)
C11_DeleteUserCascade ==
    Serving =>
    \A current_user \in Callers, user_id \in UserIdInputs :
       (/\ current_user.user_type = "admin"
        /\ user_id # current_user.user_id
        /\ StoredUser(db, user_id) # NoDoc) =>
          LET outcome == delete_user(user_id, current_user) IN
          /\ outcome.response.status_code = 200
          /\ outcome.db.users = {u \in users : u.user_id # user_id}
          /\ outcome.db.properties = {p \in properties : p.owner_id # user_id}
          /\ outcome.db.property_interests =
                {i \in property_interests : i.tenant_id # user_id /\ i.owner_id # user_id}

\* the admin has deleted the seeded owner: the dealer's listings remain and
\* no record names the owner
C11_Witness ==
    /\ response = Reply(200, "User deleted successfully")
    /\ \A u \in users : u.email # "john.owner@realestate.com"
    /\ properties # {}
    /\ \A p \in properties : \E u \in users : u.user_id = p.owner_id
    /\ \A i \in property_interests : \E u \in users : u.user_id = i.owner_id

(***************************************************************************)
(* C12: after an admin's delete_property_admin(p) completes, the store     *)
(* holds no property p and no interest whose property_id is p, and nothing *)
(* else is deleted; a caller who is not an admin gets Forbidden, and an    *)
(* admin naming an unknown property id gets NotFound, with nothing deleted.*)
(***************************************************************************)
C12_DeletePropertyCascade ==
    Serving =>
    \A current_user \in Callers, property_id \in AnyPropertyId :
       LET outcome == delete_property_admin(property_id, current_user)
           property_doc == find_one(properties, "property_id", property_id) IN
       /\ current_user.user_type # "admin" => Forbidden(outcome)
       /\ (current_user.user_type = "admin" /\ property_doc = NoDoc) => NotFound(outcome)
       /\ (current_user.user_type = "admin" /\ property_doc # NoDoc) =>
             /\ outcome.response.status_code = 200
             /\ outcome.db.users = users
             /\ outcome.db.properties = {p \in properties : p.property_id # property_id}
             /\ outcome.db.property_interests =
                   {i \in property_interests : i.property_id # property_id}

\* the admin has deleted a listing; the other listings remain and every
\* interest left names a stored listing
C12_Witness ==
    /\ response = Reply(200, "Property deleted successfully")
    /\ properties # {}
    /\ \A i \in property_interests : \E p \in properties : p.property_id = i.property_id

(***************************************************************************)
(* C13: a user record is removed from the store only by an admin's         *)
(* delete_user: every step after which a stored user id is no longer       *)
(* stored is a successful delete_user request.                             *)
(***************************************************************************)
C13_UsersRemovedByAdminOnly ==
    [][(\E u \in users : \A v \in users' : v.user_id # u.user_id) =>
          response' = Reply(200, "User deleted successfully")]_vars

(***************************************************************************)
(* C14: delete_user with the caller's own user id fails and leaves users,  *)
(* properties and interests unchanged; the admin is told that the own      *)
(* account cannot be deleted.                                              *)
(***************************************************************************)
C14_SelfDeleteBlocked ==
    Serving =>
    \A current_user \in Callers :
       LET outcome == delete_user(current_user.user_id, current_user) IN
       /\ outcome.response.status_code \in {400, 403}
       /\ outcome.db = db
       /\ current_user.user_type = "admin" =>
             outcome.response = HTTPException(400, "Cannot delete your own admin account")

\* an admin has asked to delete the own account and is still stored
C14_Witness ==
    /\ response = HTTPException(400, "Cannot delete your own admin account")
    /\ \E u \in users : u.user_type = "admin"

(***************************************************************************)
(* C16: get_interests returns to a tenant exactly the interests whose      *)
(* tenant_id is the caller, to an owner or dealer exactly the interests on *)
(* properties the caller owns, and to a caller of any other role the empty *)
(* set; the store is unchanged.                                            *)
(***************************************************************************)
C16_InterestsScopedByRole ==
    Serving =>
    \A current_user \in Callers :
       LET outcome == get_interests(current_user)
           owned == {p.property_id : p \in {q \in properties : q.owner_id = current_user.user_id}} IN
       /\ outcome.db = db
       /\ outcome.response.status_code = 200
       /\ outcome.response.interests =
             IF current_user.user_type = "tenant"
             THEN {i \in property_interests : i.tenant_id = current_user.user_id}
             ELSE IF current_user.user_type \in {"owner", "dealer"}
             THEN {i \in property_interests : i.property_id \in owned}
             ELSE {}

\* a caller has been given some of the stored interests and not all of them
C16_Witness ==
    /\ response.detail = "interests"
    /\ response.interests # {}
    /\ response.interests # property_interests

(***************************************************************************)
(* C18: in every reachable state every interest's status is one of         *)
(* pending, approved, rejected, whatever value respond is called with.     *)
(***************************************************************************)
C18_StatusDomain ==
    \A i \in property_interests : i.status \in {"pending", "approved", "rejected"}

(***************************************************************************)
(* C15: get_properties returns exactly the stored properties that satisfy  *)
(* the conjunction of: status active; owner_id = caller when the caller is *)
(* an owner or dealer and no user_type view was requested; location        *)
(* contains the given substring, case-insensitively; rent >= min_rent;     *)
(* rent <= max_rent; property_type equals the given type unless it is      *)
(* "all".                                                                  *)
(***************************************************************************)
\* text holds substring as a run of consecutive characters, whatever the case
contains(text, substring) ==
    LET sub == chars(substring)
        txt == chars(text) IN
    \E i \in 0..(Len(txt) - Len(sub)) :
       \A k \in 1..Len(sub) : lower(sub[k]) = lower(txt[i + k])

C15_ListWithFilters ==
    Serving =>
    \A current_user \in Callers, user_type \in ViewInputs, location \in LocationInputs,
       min_rent \in MinRentInputs, max_rent \in MaxRentInputs,
       property_type \in PropertyTypeInputs :
       get_properties(user_type, location, min_rent, max_rent, property_type,
                      current_user).response.properties =
          {p \in properties :
             /\ p.status = "active"
             /\ (current_user.user_type \in {"owner", "dealer"} /\ user_type = "") =>
                   p.owner_id = current_user.user_id
             /\ location # "" => contains(p.location, location)
             /\ min_rent # None => p.rent >= min_rent[1]
             /\ max_rent # None => p.rent <= max_rent[1]
             /\ (property_type # "" /\ property_type # "all") =>
                   p.property_type = property_type}

(***************************************************************************)
(* C17: in the scenario, registration and login of tenant T succeed; T's   *)
(* express_interest on the existing property P fails with KYCRequired and  *)
(* stores no interest; verify_kyc with the face matching sets T's          *)
(* kyc_completed; express_interest on P then succeeds with one interest of *)
(* status pending; after the owner of P responds "approved" the status of  *)
(* that interest is approved.                                              *)
(***************************************************************************)
ScenarioTenant == find_one(users, "email", ScenarioEmail)

C17_EndToEnd ==
    /\ scenario.stage = "registered" =>
          /\ response.detail = "User registered successfully"
          /\ ScenarioTenant # NoDoc /\ ScenarioTenant.user_type = "tenant"
    /\ scenario.stage = "logged_in" =>
          /\ response.detail = "Login successful"
          /\ verify_token(scenario.token).ok
          /\ verify_token(scenario.token).user = ScenarioTenant
    /\ scenario.stage = "refused" =>
          /\ response \in {KYCRequired, Reply(200, "KYC verification completed")}
          /\ ~ScenarioTenant.kyc_completed
          /\ property_interests = {}
    /\ scenario.stage = "verified" =>
          /\ response = Reply(200, "KYC verification completed")
          /\ ScenarioTenant.kyc_completed
    /\ scenario.stage = "interested" =>
          /\ response = Reply(200, "Interest expressed successfully")
          /\ Cardinality(ScenarioInterests) = 1
          /\ \A i \in ScenarioInterests :
                i.status = "pending" /\ i.tenant_id = ScenarioTenant.user_id
    /\ scenario.stage = "responded" =>
          /\ response = Reply(200, RespondMessage("approved"))
          /\ Cardinality(ScenarioInterests) = 1
          /\ \A i \in ScenarioInterests : i.status = "approved"

\* the scenario has run to its end
C17_Witness ==
    /\ scenario.stage = "responded"
    /\ \E i \in property_interests : i.status = "approved" /\ i.tenant_id = ScenarioTenant.user_id
    /\ ScenarioTenant.kyc_completed

(***************************************************************************)
(* C19: when two concurrent respond requests on the same pending interest, *)
(* one approving and one rejecting, have both been answered, the status of *)
(* the interest is that of the response applied first: the later request   *)
(* has not written over it.                                                *)
(***************************************************************************)
C19_FirstResponseKept ==
    \A v \in Workers, w \in Workers :
       (/\ "applied" \in DOMAIN inflight[v] /\ "applied" \in DOMAIN inflight[w]
        /\ inflight[v].interest_id = inflight[w].interest_id
        /\ inflight[v].resp # inflight[w].resp
        /\ inflight[v].applied < inflight[w].applied) =>
          \A i \in property_interests :
             i.interest_id = inflight[v].interest_id => i.status = inflight[v].resp

(***************************************************************************)
(* C20: in every reachable state, the states reached by interleaved        *)
(* concurrent registrations included, no two stored users share an email   *)
(* and no two stored users share a phone.                                  *)
(***************************************************************************)
C20_UniqueEmailAndPhone ==
    \A u \in users, v \in users :
       u.user_id # v.user_id => u.email # v.email /\ u.phone # v.phone

(***************************************************************************)
(* C21: at the moment an interest record is inserted, the stored record of *)
(* its tenant exists and has kyc_completed = true, also when verify_kyc or *)
(* delete_user for that tenant runs concurrently with express_interest.    *)
(* express_interest tests the copy of the record verify_token read, so a   *)
(* write to the record between that read and the insert goes unnoticed.    *)
(***************************************************************************)
C21_TenantVerifiedAtInsert ==
    [][\A i \in property_interests' :
          i.interest_id \notin {j.interest_id : j \in property_interests} =>
             \E u \in users' : u.user_id = i.tenant_id /\ u.kyc_completed]_vars

\* the stored kyc_results show the three gating checks as passed
ResultsShowVerified(user) ==
    /\ user.kyc_results # Absent
    /\ user.kyc_results.aadhaar_verification.status = "verified"
    /\ user.kyc_results.pan_verification.status = "verified"
    /\ user.kyc_results.face_match.status = "match"

(***************************************************************************)
(* C22: in every reachable state, starting from the seeded store, a user   *)
(* has kyc_completed = true only if the user's stored kyc_results show the *)
(* national-ID check verified, the tax-ID check verified and the face      *)
(* match as match.                                                         *)
(***************************************************************************)
C22_KycCompletedOnlyIfVerified ==
    \A u \in users : u.kyc_completed => ResultsShowVerified(u)

\* no request is between two of its store operations
Quiescent == \A w \in Workers : inflight[w] = Idle \/ inflight[w].pc = "done"

(***************************************************************************)
(* C23: every stored property's owner_id names an existing user whose role *)
(* is owner or dealer, also when create_property runs concurrently with an *)
(* admin's delete_user of the creator.  The states in the middle of a      *)
(* cascading delete are left out: the property is stated of the states in  *)
(* which every request has been answered.                                  *)
(***************************************************************************)
C23_OwnerExists ==
    Quiescent =>
       \A p \in properties :
          \E u \in users : u.user_id = p.owner_id /\ u.user_type \in {"owner", "dealer"}

(***************************************************************************)
(* C24: in every reachable state, for every interest whose property still  *)
(* exists, the interest's owner_id equals that property's current          *)
(* owner_id.                                                               *)
(***************************************************************************)
C24_InterestOwnerConsistent ==
    \A i \in property_interests, p \in properties :
       i.property_id = p.property_id => i.owner_id = p.owner_id

\* an interest is stored for a listing that a request has updated since
C24_Witness ==
    \E i \in property_interests, p \in properties :
       /\ i.property_id = p.property_id
       /\ p.rent \in {update_dict.rent : update_dict \in UpdateInputs \ {<<>>}}
       /\ response = Reply(200, "Property updated successfully")

(***************************************************************************)
(* C25: a user's role never changes after registration: no operation       *)
(* modifies the user_type of an existing user record.  In every step, a    *)
(* record that is stored before and after it under the same user_id has    *)
(* the same user_type.                                                     *)
(***************************************************************************)
C25_RoleImmutable ==
    [][\A u \in users, v \in users' : u.user_id = v.user_id => u.user_type = v.user_type]_vars

\* a profile request has been served for a stored user and a verification
\* has been written for a stored user
C25_Witness ==
    /\ \E u \in users : u.profile \in {UserProfile(body) : body \in ProfileInputs}
    /\ \E u \in users : u.kyc_results \in {verification_results(e, f) :
                                              e \in EmployerInputs, f \in FaceMatchOutcomes}

\* the roles of the data model
Roles == {"owner", "dealer", "tenant", "admin"}

(***************************************************************************)
(* C26: in every reachable state every stored user's role is one of owner, *)
(* dealer, tenant, admin; registration cannot create a user with any other *)
(* role.                                                                   *)
(***************************************************************************)
C26_RoleDomain == \A u \in users : u.user_type \in Roles

\* the status codes of the authentication, authorization, not-found and
\* precondition errors
ErrorCodes == {400, 401, 403, 404}

(***************************************************************************)
(* C28: every operation that ends in an authentication, authorization,     *)
(* not-found or precondition error (401, 403, 404, 400) leaves the user,   *)
(* property and interest stores exactly as they were before the call.      *)
(***************************************************************************)
C28_ErrorsLeaveStore ==
    [][response'.status_code \in ErrorCodes =>
          /\ users' = users
          /\ properties' = properties
          /\ property_interests' = property_interests]_vars

\* an owner or dealer has been refused the answer to an interest that is
\* stored for another user's listing
C28_Witness ==
    /\ response = HTTPException(403, "Not authorized to respond to this interest")
    /\ property_interests # {}

(***************************************************************************)
(* C29: every stored interest references a property that exists and a      *)
(* tenant user that exists, also when express_interest is interleaved with *)
(* an admin's delete of that property, of its owner or of the tenant.  The *)
(* states in the middle of a cascading delete are left out: the property   *)
(* is stated of the states in which every request has been answered.       *)
(***************************************************************************)
C29_InterestReferencesExist ==
    Quiescent =>
       \A i \in property_interests :
          /\ \E p \in properties : p.property_id = i.property_id
          /\ \E u \in users : u.user_id = i.tenant_id

\* the response of a verify_kyc call that has completed
KycDone == Reply(200, "KYC verification completed")

(***************************************************************************)
(* C30: a tenant's kyc_completed always equals the outcome of that         *)
(* tenant's most recent completed verify_kyc call (a later failing attempt *)
(* resets a previous true to false), and such a reset neither deletes nor  *)
(* changes the status of interests the tenant already submitted.  In every *)
(* step: a tenant's stored kyc_completed is the outcome computed from the  *)
(* stored results, the results and kyc_completed of a stored user are      *)
(* written by a completed verify_kyc call only, and that call leaves the   *)
(* interests as they were.                                                 *)
(***************************************************************************)
C30_KycFollowsLastVerification ==
    [][/\ \A v \in users' :
             v.user_type = "tenant" /\ v.kyc_results # Absent =>
                v.kyc_completed = kyc_status(v.kyc_results)
       /\ response' # KycDone =>
             \A u \in users, v \in users' :
                u.user_id = v.user_id =>
                   v.kyc_completed = u.kyc_completed /\ v.kyc_results = u.kyc_results
       /\ response' = KycDone => property_interests' = property_interests]_vars

\* a tenant who submitted an interest while verified has failed a later
\* verification: kyc_completed is false and the interest is stored
C30_Witness ==
    /\ response = KycDone
    /\ \E u \in users, i \in property_interests :
          /\ i.tenant_id = u.user_id
          /\ ~u.kyc_completed
          /\ u.kyc_results # Absent
          /\ u.kyc_results.face_match.status = "no_match"

====
